---- MODULE Spec2Model ----
(***************************************************************************)
(* Model of monkeytype/encoding.py: the type <-> dictionary codec, its     *)
(* JSON helpers, CallTraceRow and serialize_traces.                        *)
(*                                                                         *)
(* Python values are modelled as records of one shape (PyObj).  A missing  *)
(* attribute (no __qualname__, no _name) is the empty string.  A raised    *)
(* exception is an outcome record with ok = FALSE and the exception's      *)
(* class name in err.                                                      *)
(***************************************************************************)
EXTENDS Naturals, Sequences, FiniteSets

VARIABLES op, arg, res, traces, idx, rows, logged

vars == <<op, arg, res, traces, idx, rows, logged>>

\* Bounds of the model.
MaxDepth == 2
MaxArgs == 3
MaxTraces == 3

(***************************************************************************)
(* Python objects.                                                         *)
(***************************************************************************)
PyObj(k, m, q, g, a) == [kind |-> k, module |-> m, qualname |-> q, gname |-> g, args |-> a]

NoneObj == PyObj("None", "", "", "", <<>>)

\* The optional TypeDetails payload travelling next to a type.
NoDetail == [present |-> FALSE, payload |-> ""]

SomeDetail == [present |-> TRUE, payload |-> "detail"]

Class(m, q) == PyObj("class", m, q, "", <<>>)

Int == Class("builtins", "int")

Str == Class("builtins", "str")

BuiltinList == Class("builtins", "list")

NoneType == Class("builtins", "NoneType")

Inner == Class("app", "Outer.Inner")

\* A class defined inside a function: it has a __qualname__, but no module
\* attribute leads to it.
LocalClass == Class("app", "f.<locals>.Local")

AnyT == PyObj("any", "typing", "", "", <<>>)

ListOf(t) == PyObj("generic", "typing", "", "List", <<t>>)

DictOf(k, v) == PyObj("generic", "typing", "", "Dict", <<k, v>>)

UnionOf(a, b) == PyObj("union", "typing", "", "Union", <<a, b>>)

\* Union[t, None], which the typing module names Optional.
OptionalOf(t) == PyObj("union", "typing", "", "Optional", <<t, NoneType>>)

ListOrigin == PyObj("generic", "typing", "", "List", <<>>)

DictOrigin == PyObj("generic", "typing", "", "Dict", <<>>)

UnionOrigin == PyObj("union", "typing", "", "Union", <<>>)

\* A TypeVar instance: it has a __module__ but no __qualname__.
TypeVarT == PyObj("typevar", "typing", "", "", <<>>)

\* list[int], a parameterized builtin: it carries __args__ and forwards
\* __qualname__, and is not one of the typing module's generics.
AliasListInt == PyObj("alias", "builtins", "list", "", <<Int>>)

\* sys.maxsize: an attribute that is not a type.
MaxSizeConst == PyObj("int", "", "", "", <<>>)

\* The tuple (typ, detail).
Pair(t, det) == PyObj("tuple", "", "", "", <<t, det>>)

(***************************************************************************)
(* Outcomes of a call: a returned value or a raised exception.             *)
(***************************************************************************)
Ok(t, det) ==
  [ok |-> TRUE, err |-> "", module |-> "", qualname |-> "", typ |-> t, detail |-> det, got |-> NoneObj]

Raise(e, m, q, g) ==
  [ok |-> FALSE, err |-> e, module |-> m, qualname |-> q, typ |-> NoneObj, detail |-> NoDetail, got |-> g]

(***************************************************************************)
(* monkeytype.compat and monkeytype.util, imported by encoding.py.         *)
(***************************************************************************)
is_union(typ) == typ.kind = "union"

is_any(typ) == typ.kind = "any"

is_generic(typ) == typ.kind \in {"generic", "union"}

qualname_of_generic(typ) == typ.gname

isinstance_type(typ) == typ.kind = "class"

\* The importable modules and their attributes.
ModuleAttrs ==
  [builtins |-> [int |-> Int, str |-> Str, list |-> BuiltinList],
   typing |-> [List |-> ListOrigin, Dict |-> DictOrigin, Union |-> UnionOrigin, Any |-> AnyT],
   sys |-> [maxsize |-> MaxSizeConst],
   app |-> [Outer_Inner |-> Inner]]

AttrKey(qualname) == IF qualname = "Outer.Inner" THEN "Outer_Inner" ELSE qualname

get_name_in_module(module, qualname) ==
  IF module \notin DOMAIN ModuleAttrs
  THEN Raise("NameLookupError", module, qualname, NoneObj)
  ELSE IF AttrKey(qualname) \notin DOMAIN ModuleAttrs[module]
       THEN Raise("NameLookupError", module, qualname, NoneObj)
       ELSE Ok(ModuleAttrs[module][AttrKey(qualname)], NoDetail)

(***************************************************************************)
(* type_to_dict                                                            *)
(***************************************************************************)
EncOk(d) == [ok |-> TRUE, err |-> "", d |-> d]

EncRaise(e) == [ok |-> FALSE, err |-> e, d |-> [module |-> "", qualname |-> ""]]

\* typ.__qualname__: AttributeError when the object has none.
getattr_qualname(typ) ==
  IF typ.qualname = "" THEN EncRaise("AttributeError")
  ELSE EncOk([module |-> typ.module, qualname |-> typ.qualname])

\* Variant of type_to_dict_head that tests is_generic before is_union.
type_to_dict_head_generic_first(typ) ==
  IF is_generic(typ) THEN EncOk([module |-> typ.module, qualname |-> qualname_of_generic(typ)])
  ELSE IF is_union(typ) THEN EncOk([module |-> typ.module, qualname |-> "Union"])
  ELSE IF is_any(typ) THEN EncOk([module |-> typ.module, qualname |-> "Any"])
  ELSE getattr_qualname(typ)

\* Lines 58-69: the record before elem_types is added.
type_to_dict_head(typ) ==
  IF is_union(typ) THEN EncOk([module |-> typ.module, qualname |-> "Union"])
  ELSE IF is_any(typ) THEN EncOk([module |-> typ.module, qualname |-> "Any"])
  ELSE IF is_generic(typ) THEN EncOk([module |-> typ.module, qualname |-> qualname_of_generic(typ)])
  ELSE getattr_qualname(typ)

\* Variant of stores_elem_types without the is_generic test.
stores_elem_types_any_args(typ) == typ.args # <<>>

\* Line 71: whether elem_types is stored.
stores_elem_types(typ) == typ.args # <<>> /\ is_generic(typ)

RECURSIVE type_to_dict(_)
type_to_dict(typ) ==
  LET head == type_to_dict_head(typ) IN
  IF ~head.ok THEN head
  ELSE IF stores_elem_types(typ)
       THEN LET elems == [i \in 1..Len(typ.args) |-> type_to_dict(typ.args[i])]
                bad == {i \in 1..Len(elems) : ~elems[i].ok}
            IN IF bad # {}
               THEN elems[CHOOSE i \in bad : \A j \in bad : i <= j]
               ELSE EncOk([module |-> head.d.module, qualname |-> head.d.qualname,
                           elem_types |-> [i \in 1..Len(elems) |-> elems[i].d]])
       ELSE head

(***************************************************************************)
(* type_from_dict                                                          *)
(***************************************************************************)
_HIDDEN_BUILTIN_TYPES == [NoneType |-> NoneType]

\* Variant of resolve that consults the hidden table whatever the module.
resolve_any_module(d) ==
  IF d.qualname \in DOMAIN _HIDDEN_BUILTIN_TYPES
  THEN Ok(_HIDDEN_BUILTIN_TYPES[d.qualname], NoDetail)
  ELSE get_name_in_module(d.module, d.qualname)

\* Lines 89-93.
resolve(d) ==
  IF d.module = "builtins" /\ d.qualname \in DOMAIN _HIDDEN_BUILTIN_TYPES
  THEN Ok(_HIDDEN_BUILTIN_TYPES[d.qualname], NoDetail)
  ELSE get_name_in_module(d.module, d.qualname)

\* Variant of is_type_like without the is_any test.
is_type_like_without_any(typ) == isinstance_type(typ) \/ is_generic(typ)

\* Lines 94-98.
is_type_like(typ) == isinstance_type(typ) \/ is_any(typ) \/ is_generic(typ)

\* d.get(key)
dict_get_elem_types(d) == IF "elem_types" \in DOMAIN d THEN d.elem_types ELSE <<>>

dict_get_type_detailss(d) == IF "type_detailss" \in DOMAIN d THEN d.type_detailss ELSE NoDetail

\* What typing accepts as a parameter of a generic.
IsTypeParam(p) == p.kind \in {"class", "any", "union", "generic", "alias", "typevar"}

\* typ[params] of the typing module: TypeError on a parameter that is no type.
Subscript(typ, params) ==
  LET bad == {i \in 1..Len(params) : ~IsTypeParam(params[i])} IN
  IF bad # {}
  THEN Raise("TypeError", "", "", params[CHOOSE i \in bad : \A j \in bad : i <= j])
  ELSE Ok([typ EXCEPT !.args = params], NoDetail)

\* Line 105: the tuple built from the recursive calls, each of which
\* returns the pair (typ, detail).
elem_types_tuple(outs) == [i \in 1..Len(outs) |-> Pair(outs[i].typ, outs[i].detail)]

RECURSIVE type_from_dict(_)
type_from_dict(d) ==
  IF "module" \notin DOMAIN d \/ "qualname" \notin DOMAIN d
  THEN Raise("KeyError", "", "", NoneObj)
  ELSE
  LET found == resolve(d) IN
  IF ~found.ok THEN found
  ELSE LET typ == found.typ IN
       IF ~is_type_like(typ)
       THEN Raise("InvalidTypeError", d.module, d.qualname, NoneObj)
       ELSE LET elem_type_dicts == dict_get_elem_types(d) IN
            IF elem_type_dicts # <<>> /\ is_generic(typ)
            THEN LET outs == [i \in 1..Len(elem_type_dicts) |-> type_from_dict(elem_type_dicts[i])]
                     bad == {i \in 1..Len(outs) : ~outs[i].ok}
                 IN IF bad # {}
                    THEN outs[CHOOSE i \in bad : \A j \in bad : i <= j]
                    ELSE LET applied == Subscript(typ, elem_types_tuple(outs)) IN
                         IF ~applied.ok THEN applied
                         ELSE Ok(applied.typ, dict_get_type_detailss(d))
            ELSE Ok(typ, dict_get_type_detailss(d))

(***************************************************************************)
(* JSON text.  A document is a tagged value; json.dumps(..., sort_keys=True)*)
(* writes an object's members in key order and json.loads reads them back  *)
(* in the order of the text.  JNone is Python's None, which is no text.    *)
(***************************************************************************)
JV(t, s, xs) == [tag |-> t, str |-> s, items |-> xs]

JNone == JV("None", "", <<>>)

JNull == JV("null", "", <<>>)

JStr(s) == JV("string", s, <<>>)

Member(k, v) == [key |-> k, val |-> v]

\* The keys in use, in the order sort_keys puts them.
AllKeysSorted == <<"a", "b", "c", "d", "elem_types", "module", "qualname", "type_detailss">>

SortedKeys(S) == SelectSeq(AllKeysSorted, LAMBDA k : k \in S)

RECURSIVE json_dumps_typedict(_)
json_dumps_typedict(d) ==
  LET keys == SortedKeys(DOMAIN d)
      value(k) == IF k = "elem_types"
                  THEN JV("array", "", [i \in 1..Len(d.elem_types) |-> json_dumps_typedict(d.elem_types[i])])
                  ELSE IF k = "type_detailss" THEN JStr(d[k].payload)
                  ELSE JStr(d[k])
  IN JV("object", "", [i \in 1..Len(keys) |-> Member(keys[i], value(keys[i]))])

RECURSIVE json_loads_typedict(_)
json_loads_typedict(text) ==
  LET n == Len(text.items)
      at(k) == text.items[CHOOSE i \in 1..n : text.items[i].key = k].val
  IN [k \in {text.items[i].key : i \in 1..n} |->
        IF k = "elem_types"
        THEN [i \in 1..Len(at(k).items) |-> json_loads_typedict(at(k).items[i])]
        ELSE IF k = "type_detailss" THEN [present |-> TRUE, payload |-> at(k).str]
        ELSE at(k).str]

JsonOk(t) == [ok |-> TRUE, err |-> "", text |-> t]

JsonRaise(e) == [ok |-> FALSE, err |-> e, text |-> JNone]

type_to_json(typ, type_details) ==
  LET type_dict == type_to_dict(typ) IN
  IF ~type_dict.ok THEN JsonRaise(type_dict.err)
  ELSE JsonOk(json_dumps_typedict(type_dict.d))

\* json.loads('null') is None, and None['module'] is a TypeError.
type_from_json(typ_json) ==
  IF typ_json.tag = "null" THEN Raise("TypeError", "", "", NoneObj)
  ELSE type_from_dict(json_loads_typedict(typ_json))

(***************************************************************************)
(* Argument types.  A Python dict is the sequence of its items in          *)
(* insertion order.                                                        *)
(***************************************************************************)
Names(items) == {items[i].name : i \in 1..Len(items)}

arg_types_to_json(arg_types) ==
  LET encs == [i \in 1..Len(arg_types) |-> type_to_dict(arg_types[i].typ)]
      bad == {i \in 1..Len(encs) : ~encs[i].ok}
      keys == SortedKeys(Names(arg_types))
      dictOf(k) == encs[CHOOSE i \in 1..Len(arg_types) : arg_types[i].name = k].d
  IN IF bad # {}
     THEN JsonRaise(encs[CHOOSE i \in bad : \A j \in bad : i <= j].err)
     ELSE JsonOk(JV("object", "",
                    [i \in 1..Len(keys) |-> Member(keys[i], json_dumps_typedict(dictOf(keys[i])))]))

ArgsOk(items) == [ok |-> TRUE, fail |-> Ok(NoneObj, NoDetail), items |-> items]

ArgsRaise(out) == [ok |-> FALSE, fail |-> out, items |-> <<>>]

\* Variant of arg_types_and_details_from_json that leaves out the entries
\* that fail to decode.
arg_types_and_details_from_json_partial(arg_types_json) ==
  LET members == arg_types_json.items
      good == SelectSeq(members, LAMBDA m : type_from_dict(json_loads_typedict(m.val)).ok)
  IN ArgsOk([i \in 1..Len(good) |->
               LET out == type_from_dict(json_loads_typedict(good[i].val)) IN
               [name |-> good[i].key, typ |-> out.typ, detail |-> out.detail]])

arg_types_and_details_from_json(arg_types_json) ==
  LET members == arg_types_json.items
      outs == [i \in 1..Len(members) |-> type_from_dict(json_loads_typedict(members[i].val))]
      bad == {i \in 1..Len(outs) : ~outs[i].ok}
  IN IF bad # {}
     THEN ArgsRaise(outs[CHOOSE i \in bad : \A j \in bad : i <= j])
     ELSE ArgsOk([i \in 1..Len(members) |->
                    [name |-> members[i].key, typ |-> outs[i].typ, detail |-> outs[i].detail]])

(***************************************************************************)
(* maybe_encode_type, maybe_decode_type.  calls counts the invocations of  *)
(* the callable passed in.                                                 *)
(***************************************************************************)
\* A TypeEncoder or TypeDecoder is passed by name; these call it.
call_encoder(encode, typ, typ_details) ==
  IF encode = "type_to_json" THEN type_to_json(typ, typ_details) ELSE JsonRaise("TypeError")

call_decoder(decode, encoded) ==
  IF decode = "type_from_json" THEN type_from_json(encoded)
  ELSE Raise("TypeError", "", "", NoneObj)

maybe_encode_type(encode, typ, typ_details) ==
  IF typ = NoneObj
  THEN [calls |-> 0, out |-> JsonOk(JNone)]
  ELSE [calls |-> 1, out |-> call_encoder(encode, typ, typ_details)]

\* Variant of maybe_decode_type without the test for 'null'.
maybe_decode_type_none_only(decode, encoded) ==
  IF encoded = JNone
  THEN [calls |-> 0, none |-> TRUE, out |-> Ok(NoneObj, NoDetail)]
  ELSE [calls |-> 1, none |-> FALSE, out |-> call_decoder(decode, encoded)]

maybe_decode_type(decode, encoded) ==
  IF encoded = JNone \/ encoded = JNull
  THEN [calls |-> 0, none |-> TRUE, out |-> Ok(NoneObj, NoDetail)]
  ELSE [calls |-> 1, none |-> FALSE, out |-> call_decoder(decode, encoded)]

(***************************************************************************)
(* CallTrace and CallTraceRow.                                             *)
(***************************************************************************)
Func(m, q) == [module |-> m, qualname |-> q]

\* The functions monkeytype.util.get_func_in_module finds.
ModuleFuncs == {Func("app", "f"), Func("app", "Outer.method")}

get_func_in_module(module, qualname) ==
  IF Func(module, qualname) \in ModuleFuncs
  THEN [ok |-> TRUE, err |-> "", func |-> Func(module, qualname)]
  ELSE [ok |-> FALSE, err |-> "NameLookupError", func |-> Func("", "")]

CallTrace(func, arg_types, return_type, yield_type) ==
  [func |-> func, arg_types |-> arg_types,
   return_type |-> return_type, return_type_detail |-> NoDetail,
   yield_type |-> yield_type, yield_type_detail |-> NoDetail]

CallTraceRow(module, qualname, arg_types, return_type, yield_type) ==
  [module |-> module, qualname |-> qualname, arg_types |-> arg_types,
   return_type |-> return_type, yield_type |-> yield_type]

NoRow == CallTraceRow("", "", JNone, JNone, JNone)

RowOk(r) == [ok |-> TRUE, err |-> "", row |-> r]

RowRaise(e) == [ok |-> FALSE, err |-> e, row |-> NoRow]

from_trace(trace) ==
  LET a == arg_types_to_json(trace.arg_types)
      r == maybe_encode_type("type_to_json", trace.return_type, trace.return_type_detail).out
      y == maybe_encode_type("type_to_json", trace.yield_type, trace.yield_type_detail).out
  IN IF ~a.ok THEN RowRaise(a.err)
     ELSE IF ~r.ok THEN RowRaise(r.err)
     ELSE IF ~y.ok THEN RowRaise(y.err)
     ELSE RowOk(CallTraceRow(trace.func.module, trace.func.qualname, a.text, r.text, y.text))

\* The arg_types a rebuilt CallTrace holds: a dict of items, or whatever
\* else the constructor was handed (a str).
AsDict(items) == [isdict |-> TRUE, str |-> "", items |-> items]

AsStr(s) == [isdict |-> FALSE, str |-> s, items |-> <<>>]

TraceOk(t) == [ok |-> TRUE, err |-> "", fail |-> Ok(NoneObj, NoDetail), trace |-> t]

TraceRaise(e, out) ==
  [ok |-> FALSE, err |-> e, fail |-> out,
   trace |-> [func |-> Func("", ""), arg_types |-> AsStr(""),
              return_type |-> NoneObj, return_type_detail |-> NoDetail,
              yield_type |-> NoneObj, yield_type_detail |-> NoDetail]]

\* Line 208: (arg_types, arg_type_detail) = <dict>.  Unpacking iterates the
\* dict, that is its keys, and needs exactly two of them.
unpack_two(decoded) ==
  IF Len(decoded) # 2
  THEN [ok |-> FALSE, first |-> "", second |-> ""]
  ELSE [ok |-> TRUE, first |-> decoded[1].name, second |-> decoded[2].name]

to_trace(self) ==
  LET function == get_func_in_module(self.module, self.qualname)
      decoded == arg_types_and_details_from_json(self.arg_types)
      unpacked == unpack_two(decoded.items)
      r == maybe_decode_type("type_from_json", self.return_type)
      y == maybe_decode_type("type_from_json", self.yield_type)
  IN IF ~function.ok THEN TraceRaise(function.err, Ok(NoneObj, NoDetail))
     ELSE IF ~decoded.ok THEN TraceRaise(decoded.fail.err, decoded.fail)
     ELSE IF ~unpacked.ok THEN TraceRaise("ValueError", Ok(NoneObj, NoDetail))
     ELSE IF ~r.out.ok THEN TraceRaise(r.out.err, r.out)
     ELSE IF ~y.out.ok THEN TraceRaise(y.out.err, y.out)
     ELSE TraceOk([func |-> function.func,
                   arg_types |-> AsStr(unpacked.first),
                   return_type |-> r.out.typ, return_type_detail |-> r.out.detail,
                   yield_type |-> y.out.typ, yield_type_detail |-> y.out.detail])

(***************************************************************************)
(* serialize_traces: a generator.  Resuming it runs the loop until a trace *)
(* serializes (the row is yielded) or the input is exhausted; every trace  *)
(* that fails on the way is logged.                                        *)
(***************************************************************************)
RECURSIVE resume(_, _, _)
\* Variant of resume without the try/except: the first failure ends the
\* generator.
resume_without_except(ts, i, n) ==
  IF i >= Len(ts) THEN [idx |-> i, logged |-> n, yielded |-> FALSE, row |-> NoRow]
  ELSE LET r == from_trace(ts[i + 1]) IN
       IF r.ok THEN [idx |-> i + 1, logged |-> n, yielded |-> TRUE, row |-> r.row]
       ELSE [idx |-> i + 1, logged |-> n, yielded |-> FALSE, row |-> NoRow]

resume(ts, i, n) ==
  IF i >= Len(ts) THEN [idx |-> i, logged |-> n, yielded |-> FALSE, row |-> NoRow]
  ELSE LET r == from_trace(ts[i + 1]) IN
       IF r.ok THEN [idx |-> i + 1, logged |-> n, yielded |-> TRUE, row |-> r.row]
       ELSE resume(ts, i + 1, n + 1)

(***************************************************************************)
(* Inputs.                                                                 *)
(***************************************************************************)
LeafTypes ==
  {Int, Str, NoneType, AnyT, Inner, LocalClass, TypeVarT, AliasListInt,
   UnionOf(Int, Str), OptionalOf(Int), ListOrigin}

RECURSIVE TypesUpTo(_)
TypesUpTo(n) ==
  IF n = 0 THEN LeafTypes
  ELSE LET sub == TypesUpTo(n - 1) IN
       LeafTypes \cup {ListOf(t) : t \in sub} \cup {DictOf(k, t) : k \in {Str, Int}, t \in sub}

Types == TypesUpTo(MaxDepth)

Rec(m, q) == [module |-> m, qualname |-> q]

RecWith(m, q, elems) == [module |-> m, qualname |-> q, elem_types |-> elems]

LeafRecords ==
  {Rec("builtins", "int"), Rec("builtins", "str"), Rec("builtins", "NoneType"),
   Rec("typing", "Any"), Rec("typing", "List"), Rec("app", "Outer.Inner"),
   Rec("app", "f.<locals>.Local"), Rec("nonexistent_module_xyz", "Foo"),
   Rec("nonexistent_module_xyz", "NoneType"), Rec("builtins", "Foo"),
   Rec("sys", "maxsize"),
   RecWith("typing", "List", <<>>),
   RecWith("builtins", "int", <<Rec("nonexistent_module_xyz", "Foo")>>),
   RecWith("typing", "Union", <<Rec("builtins", "int"), Rec("builtins", "str")>>),
   [module |-> "builtins", qualname |-> "int", type_detailss |-> SomeDetail]}

RECURSIVE RecordsUpTo(_)
RecordsUpTo(n) ==
  IF n = 0 THEN LeafRecords
  ELSE LET sub == RecordsUpTo(n - 1) IN
       LeafRecords \cup {RecWith("typing", "List", <<r>>) : r \in sub}
         \cup {RecWith("typing", "Dict", <<k, r>>) :
                 k \in {Rec("builtins", "str"), Rec("sys", "maxsize")}, r \in sub}

Records == RecordsUpTo(MaxDepth)

Item(n, t) == [name |-> n, typ |-> t]

\* Parameters in declaration order, which is not the order of their names.
ArgPool == <<Item("c", Int), Item("a", AnyT), Item("b", Str), Item("d", ListOf(Int))>>

Min(a, b) == IF a < b THEN a ELSE b

ArgLists ==
  {SubSeq(ArgPool, 1, n) : n \in 0..Min(MaxArgs, Len(ArgPool))}
    \cup {<<Item("b", Int), Item("a", TypeVarT)>>}

TraceSet ==
  {CallTrace(f, a, r, y) :
     f \in {Func("app", "f")}, a \in ArgLists,
     r \in {NoneObj, Str, NoneType, ListOf(Int), TypeVarT}, y \in {NoneObj, Int}}
    \cup {CallTrace(Func("app", "g.<locals>.h"), <<Item("b", Int), Item("a", Str)>>, NoneObj, NoneObj)}

\* The traces handed to serialize_traces.
SerTraces ==
  {CallTrace(Func("app", "f"), <<>>, NoneObj, NoneObj),
   CallTrace(Func("app", "Outer.method"), <<Item("b", Int), Item("a", Str)>>, ListOf(Int), NoneObj),
   CallTrace(Func("app", "f"), <<Item("a", LocalClass), Item("b", TypeVarT)>>, NoneObj, NoneObj),
   CallTrace(Func("app", "f"), <<Item("a", Int)>>, NoneObj, ListOf(TypeVarT))}

RECURSIVE SeqsUpTo(_, _)
SeqsUpTo(S, n) ==
  IF n = 0 THEN {<<>>}
  ELSE LET sub == SeqsUpTo(S, n - 1) IN
       sub \cup {Append(q, x) : q \in {p \in sub : Len(p) = n - 1}, x \in S}

ArgRecordPool ==
  {Rec("builtins", "int"), Rec("typing", "Any"), Rec("nonexistent_module_xyz", "Foo"),
   Rec("sys", "maxsize"), RecWith("typing", "List", <<Rec("builtins", "int")>>)}

ArgNameOrder == <<"c", "a", "b", "d">>

\* JSON objects of argument records, members in the order of ArgNameOrder.
ArgJsons ==
  {JV("object", "", [i \in 1..Len(q) |-> Member(ArgNameOrder[i], json_dumps_typedict(q[i]))]) :
     q \in SeqsUpTo(ArgRecordPool, Min(MaxArgs, Len(ArgNameOrder)))}

MaybeTypes == {NoneObj, Int, NoneType, AnyT, ListOf(Str), TypeVarT}

EncodedTexts ==
  {JNone, JNull} \cup
  {json_dumps_typedict(d) :
     d \in {Rec("builtins", "int"), Rec("builtins", "NoneType"), Rec("sys", "maxsize"),
            Rec("builtins", "Foo"), RecWith("typing", "List", <<Rec("builtins", "int")>>)}}

(***************************************************************************)
(* Actions.  The library is idle (op = "init") until a caller invokes one  *)
(* of its functions; Return hands control back.                            *)
(***************************************************************************)
Init ==
  /\ op = "init"
  /\ arg = NoneObj
  /\ res = NoneObj
  /\ traces = <<>>
  /\ idx = 0
  /\ rows = <<>>
  /\ logged = 0

gen == <<traces, idx, rows, logged>>

\* type_to_dict(t)
EncodeType ==
  \E t \in Types :
    /\ op = "init"
    /\ op' = "type_to_dict"
    /\ arg' = t
    /\ res' = type_to_dict(t)
    /\ UNCHANGED gen

\* type_from_dict(d)
DecodeRecord ==
  \E d \in Records :
    /\ op = "init"
    /\ op' = "type_from_dict"
    /\ arg' = d
    /\ res' = type_from_dict(d)
    /\ UNCHANGED gen

\* type_from_dict applied to the record type_to_dict just returned
RoundTrip ==
  /\ op = "type_to_dict"
  /\ res.ok
  /\ op' = "round_trip"
  /\ res' = type_from_dict(res.d)
  /\ UNCHANGED <<arg, traces, idx, rows, logged>>

\* arg_types_and_details_from_json(j)
ArgsFromJson ==
  \E j \in ArgJsons :
    /\ op = "init"
    /\ op' = "arg_types_and_details_from_json"
    /\ arg' = j
    /\ res' = arg_types_and_details_from_json(j)
    /\ UNCHANGED gen

\* maybe_encode_type("type_to_json", t, None)
MaybeEncode ==
  \E t \in MaybeTypes :
    /\ op = "init"
    /\ op' = "maybe_encode_type"
    /\ arg' = t
    /\ res' = maybe_encode_type("type_to_json", t, NoDetail)
    /\ UNCHANGED gen

\* maybe_decode_type("type_from_json", e)
MaybeDecode ==
  \E e \in EncodedTexts :
    /\ op = "init"
    /\ op' = "maybe_decode_type"
    /\ arg' = e
    /\ res' = maybe_decode_type("type_from_json", e)
    /\ UNCHANGED gen

\* maybe_decode_type applied to what maybe_encode_type just returned
MaybeRoundTrip ==
  /\ op = "maybe_encode_type"
  /\ res.out.ok
  /\ op' = "maybe_round_trip"
  /\ res' = maybe_decode_type("type_from_json", res.out.text)
  /\ UNCHANGED <<arg, traces, idx, rows, logged>>

\* CallTraceRow.from_trace(t)
FromTrace ==
  \E t \in TraceSet :
    /\ op = "init"
    /\ op' = "from_trace"
    /\ arg' = t
    /\ res' = from_trace(t)
    /\ UNCHANGED gen

\* .to_trace() on the row from_trace just returned
ToTrace ==
  /\ op = "from_trace"
  /\ res.ok
  /\ op' = "to_trace"
  /\ res' = to_trace(res.row)
  /\ UNCHANGED <<arg, traces, idx, rows, logged>>

\* serialize_traces(ts): creates the generator; nothing runs yet
SerializeTraces ==
  \E ts \in SeqsUpTo(SerTraces, MaxTraces) :
    /\ op = "init"
    /\ op' = "serialize_traces"
    /\ traces' = ts
    /\ idx' = 0
    /\ rows' = <<>>
    /\ logged' = 0
    /\ UNCHANGED <<arg, res>>

\* next() on the generator
GeneratorNext ==
  /\ op \in {"serialize_traces", "yielded"}
  /\ LET r == resume(traces, idx, logged) IN
       /\ idx' = r.idx
       /\ logged' = r.logged
       /\ rows' = IF r.yielded THEN Append(rows, r.row) ELSE rows
       /\ op' = IF r.yielded THEN "yielded" ELSE "exhausted"
  /\ UNCHANGED <<arg, res, traces>>

\* the call returns, or the caller drops the generator
Return ==
  /\ op # "init"
  /\ op' = "init"
  /\ arg' = NoneObj
  /\ res' = NoneObj
  /\ traces' = <<>>
  /\ idx' = 0
  /\ rows' = <<>>
  /\ logged' = 0

Next ==
  \/ EncodeType
  \/ DecodeRecord
  \/ RoundTrip
  \/ ArgsFromJson
  \/ MaybeEncode
  \/ MaybeDecode
  \/ MaybeRoundTrip
  \/ FromTrace
  \/ ToTrace
  \/ SerializeTraces
  \/ GeneratorNext
  \/ Return

Spec == Init /\ [][Next]_vars
(***************************************************************************)
(* Properties.                                                             *)
(***************************************************************************)
\* The types the round trip is stated for: classes that a module attribute
\* or the hidden table leads to, Any, and parameterized generics of those.
RECURSIVE ResolvableType(_)
ResolvableType(t) ==
  \/ t \in {Int, Str, BuiltinList, NoneType, Inner, AnyT}
  \/ /\ t.kind = "generic"
     /\ t.args # <<>>
     /\ \A i \in 1..Len(t.args) : ResolvableType(t.args[i])

\* C1: for every resolvable type T (a class, the none-type, Any, a one-level
\* and a two-level generic), type_from_dict(type_to_dict(T)) returns a type
\* equal to T.
C1_RoundTripIdentity ==
  (op = "round_trip" /\ ResolvableType(arg)) => (res.ok /\ res.typ = arg)

\* The rows of the traces that serialize, in order.
RECURSIVE RowsOf(_)
RowsOf(ts) ==
  IF ts = <<>> THEN <<>>
  ELSE LET r == from_trace(ts[Len(ts)])
           before == RowsOf(SubSeq(ts, 1, Len(ts) - 1))
       IN IF r.ok THEN Append(before, r.row) ELSE before

Generating == op \in {"serialize_traces", "yielded", "exhausted"}

\* C2: serialize_traces yields exactly the rows of the traces whose
\* from_trace succeeds, in input order; a failing trace is skipped (and
\* logged) and the later traces are still processed, so the generator ends
\* only at the end of the input and has then yielded the row of every trace
\* that serializes.
C2_SerializeSkipsFailures ==
  Generating =>
    /\ rows = RowsOf(SubSeq(traces, 1, idx))
    /\ Len(rows) + logged = idx
    /\ idx <= Len(traces)
    /\ op = "yielded" => (idx >= 1 /\ from_trace(traces[idx]).ok)
    /\ op = "exhausted" => (idx = Len(traces) /\ rows = RowsOf(traces))

\* C2 witness: three traces, the second of which does not serialize, have
\* given the rows of the first and the third.
C2_Witness ==
  /\ op = "exhausted"
  /\ Len(traces) = 3
  /\ from_trace(traces[1]).ok
  /\ ~from_trace(traces[2]).ok
  /\ from_trace(traces[3]).ok
  /\ rows = <<from_trace(traces[1]).row, from_trace(traces[3]).row>>

InHiddenTable(d) == d.module = "builtins" /\ d.qualname \in DOMAIN _HIDDEN_BUILTIN_TYPES

\* The record names no module, or no attribute of the module, and is not
\* in the hidden table.
Unresolvable(d) == ~InHiddenTable(d) /\ ~get_name_in_module(d.module, d.qualname).ok

Resolved(d) ==
  IF InHiddenTable(d) THEN _HIDDEN_BUILTIN_TYPES[d.qualname]
  ELSE get_name_in_module(d.module, d.qualname).typ

TypeLikeKinds == {"class", "any", "generic", "union"}

NonType(d) == ~Unresolvable(d) /\ Resolved(d).kind \notin TypeLikeKinds

GenericWithElems(d) ==
  /\ ~Unresolvable(d)
  /\ Resolved(d).kind \in {"generic", "union"}
  /\ "elem_types" \in DOMAIN d
  /\ d.elem_types # <<>>

\* An unresolvable record at d or below it, through generic records only.
RECURSIVE NestsUnresolvable(_)
NestsUnresolvable(d) ==
  \/ Unresolvable(d)
  \/ /\ GenericWithElems(d)
     /\ \E i \in 1..Len(d.elem_types) : NestsUnresolvable(d.elem_types[i])

\* No record at d or below it names something that is not a type.
RECURSIVE NoNonType(_)
NoNonType(d) ==
  /\ ~NonType(d)
  /\ "elem_types" \in DOMAIN d => \A i \in 1..Len(d.elem_types) : NoNonType(d.elem_types[i])

IsNameLookupError(r) == ~r.ok /\ r.err = "NameLookupError"

RaisedInvalidTypeFor(r, d) ==
  ~r.ok /\ r.err = "InvalidTypeError" /\ r.module = d.module /\ r.qualname = d.qualname

\* C4: for a record that resolves, type_from_dict raises InvalidTypeError
\* for it exactly when the resolved object is neither a type, nor Any, nor a
\* generic.
C4_InvalidTypeErrorExactlyForNonTypes ==
  (op = "type_from_dict" /\ ~Unresolvable(arg)) =>
    (RaisedInvalidTypeFor(res, arg) <=> Resolved(arg).kind \notin TypeLikeKinds)

\* C4 witness: a record naming an integer constant was refused.
C4_Witness ==
  /\ op = "type_from_dict"
  /\ arg = Rec("sys", "maxsize")
  /\ RaisedInvalidTypeFor(res, arg)

EntryOut(m) == type_from_json(m.val)

\* C5: arg_types_and_details_from_json raises, with the error of a failing
\* entry and no mapping, as soon as one entry fails to decode; when every
\* entry decodes, the keys of the result are the names of the JSON object.
C5_ArgsAllOrNothing ==
  op = "arg_types_and_details_from_json" =>
    LET members == arg.items
        failing == {i \in 1..Len(members) : ~EntryOut(members[i]).ok}
    IN /\ failing # {} =>
            /\ ~res.ok
            /\ res.items = <<>>
            /\ \E i \in failing : res.fail = EntryOut(members[i])
       /\ failing = {} =>
            /\ res.ok
            /\ Len(res.items) = Len(members)
            /\ Names(res.items) = {members[i].key : i \in 1..Len(members)}

\* C5 witness: three entries, of which only the second fails, gave the
\* second's error and no mapping.
C5_Witness ==
  /\ op = "arg_types_and_details_from_json"
  /\ Len(arg.items) = 3
  /\ EntryOut(arg.items[1]).ok
  /\ ~EntryOut(arg.items[2]).ok
  /\ EntryOut(arg.items[3]).ok
  /\ ~res.ok
  /\ res.fail.err = "InvalidTypeError"

\* C6: type_to_dict takes qualname by precedence: "Union" for a union, else
\* "Any" for Any, else the generic's own name for a generic, else
\* __qualname__; module is the type's __module__ in every case.
C6_QualnamePrecedence ==
  (op = "type_to_dict" /\ res.ok) =>
    /\ res.d.module = arg.module
    /\ arg.kind = "union" => res.d.qualname = "Union"
    /\ arg.kind = "any" => res.d.qualname = "Any"
    /\ arg.kind = "generic" => res.d.qualname = arg.gname
    /\ arg.kind \notin {"union", "any", "generic"} => res.d.qualname = arg.qualname

\* C6 witness: a union that the typing module names otherwise was encoded.
C6_Witness ==
  /\ op = "type_to_dict"
  /\ arg = OptionalOf(Int)
  /\ res.ok
  /\ res.d.qualname = "Union"

\* C7: whatever keys the record carries, the detail returned next to the
\* type is None, and the parameters applied to a generic are the decoded
\* types themselves, not (type, detail) pairs.
C7_DetailNoneAndTypesApplied ==
  op = "type_from_dict" =>
    /\ res.ok => res.detail = NoDetail
    /\ GenericWithElems(arg) =>
         LET outs == [i \in 1..Len(arg.elem_types) |-> type_from_dict(arg.elem_types[i])] IN
         (\A i \in 1..Len(outs) : outs[i].ok) =>
           elem_types_tuple(outs) = [i \in 1..Len(outs) |-> outs[i].typ]

\* C8: the record has the key elem_types exactly when the type has
\* arguments and is generic; then elem_types is type_to_dict of each
\* argument, in order; otherwise the keys are module and qualname alone.
C8_ElemTypesIffGenericWithArgs ==
  (op = "type_to_dict" /\ res.ok) =>
    /\ "elem_types" \in DOMAIN res.d <=> (arg.args # <<>> /\ arg.kind \in {"generic", "union"})
    /\ "elem_types" \in DOMAIN res.d =>
         /\ Len(res.d.elem_types) = Len(arg.args)
         /\ \A i \in 1..Len(arg.args) :
              /\ type_to_dict(arg.args[i]).ok
              /\ res.d.elem_types[i] = type_to_dict(arg.args[i]).d
    /\ "elem_types" \notin DOMAIN res.d => DOMAIN res.d = {"module", "qualname"}

\* C8 witness: a two-level generic was encoded, arguments in order.
C8_Witness ==
  /\ op = "type_to_dict"
  /\ arg = DictOf(Str, ListOf(Int))
  /\ res.ok
  /\ res.d.elem_types = <<Rec("builtins", "str"),
                          RecWith("typing", "List", <<Rec("builtins", "int")>>)>>

TraceResolvable(t) ==
  /\ t.func \in ModuleFuncs
  /\ \A i \in 1..Len(t.arg_types) : ResolvableType(t.arg_types[i].typ)
  /\ t.return_type = NoneObj \/ ResolvableType(t.return_type)
  /\ t.yield_type = NoneObj \/ ResolvableType(t.yield_type)

\* C9: for a trace t whose function and types resolve, whatever the number
\* of arguments, from_trace(t).to_trace() succeeds with arg_types mapping
\* each argument name of t to its type, and with t's return and yield types.
C9_RowRoundTrip ==
  (op = "to_trace" /\ TraceResolvable(arg)) =>
    /\ res.ok
    /\ res.trace.arg_types.isdict
    /\ Names(res.trace.arg_types.items) = Names(arg.arg_types)
    /\ \A i \in 1..Len(arg.arg_types) :
         \E j \in 1..Len(res.trace.arg_types.items) :
           /\ res.trace.arg_types.items[j].name = arg.arg_types[i].name
           /\ res.trace.arg_types.items[j].typ = arg.arg_types[i].typ
    /\ res.trace.return_type = arg.return_type
    /\ res.trace.yield_type = arg.yield_type

\* C10: maybe_encode_type returns None without calling the encoder for a
\* None type and the encoder's result otherwise; maybe_decode_type returns
\* None without calling the decoder for None and for 'null', and the
\* decoder's result otherwise; an absent type encoded then decoded is None.
C10_MaybeEncodeDecode ==
  /\ op = "maybe_encode_type" =>
       IF arg = NoneObj
       THEN res.calls = 0 /\ res.out = JsonOk(JNone)
       ELSE res.calls = 1 /\ res.out = type_to_json(arg, NoDetail)
  /\ op = "maybe_decode_type" =>
       IF arg.tag \in {"None", "null"}
       THEN res.calls = 0 /\ res.none
       ELSE res.calls = 1 /\ ~res.none /\ res.out = type_from_json(arg)
  /\ (op = "maybe_round_trip" /\ arg = NoneObj) => (res.calls = 0 /\ res.none)

\* C10 witness: the text 'null' was handed to maybe_decode_type.
C10_Witness ==
  /\ op = "maybe_decode_type"
  /\ arg = JNull
  /\ res.none
  /\ res.calls = 0
====
